---- MODULE Spec2Model ----
(***************************************************************************)
(* Warehouse scene generation (src/warehouse.py) and the reader side of    *)
(* the archival converter (src/hdf5_convert.py).                           *)
(*                                                                         *)
(* One behaviour is one call of generate_warehouse_scenes: the coordinator *)
(* creates the output root, submits one job per scene index to a pool of   *)
(* worker processes and collects the futures in submission order; every    *)
(* worker runs generate_scene for the job it picked.                       *)
(*                                                                         *)
(* Numbers: lengths are in thousandths (0.8 is 800), angles of rotations   *)
(* in milliradians, camera ring angles in millidegrees.  A file path is a  *)
(* sequence of components, each a pair <<text, number>>: "scene_3" is      *)
(* <<"scene", 3>>, "rgba.png" is <<"rgba.png", 0>>.                        *)
(***************************************************************************)
EXTENDS Integers, Sequences, FiniteSets, TLC

VARIABLES
    catalog,      \* ASSET_CATEGORIES: category -> number of discovered assets
    rng,          \* what the random module yields in this run (see Draw)
    num_scenes,   \* arguments of generate_warehouse_scenes
    num_angles,
    distances,
    num_workers,
    cpc,          \* position of the coordinator in generate_warehouse_scenes
    tasks,        \* scene_index argument of every submitted job, in order
    collected,    \* number of futures the collecting loop has passed
    log,          \* records emitted by logging.error in the coordinator
    job,          \* job -> state of its generate_scene call
    fs            \* files and directories on disk: path -> entry

vars == <<catalog, rng, num_scenes, num_angles, distances, num_workers,
          cpc, tasks, collected, log, job, fs>>

inputs == <<catalog, rng, num_scenes, num_angles, distances, num_workers>>

-----------------------------------------------------------------------------
(* Bounds of the model *)

MaxScenes == 2

MaxWorkers == 2

MaxAngles == 2

MaxDistances == 2

DistanceSamples == {800, 1000}

JiggleSamples == {<<0, 0, 0>>, <<50, -50, 20>>}

CatalogSizes == {0, 1}

-----------------------------------------------------------------------------
(* Program constants *)

OUTPUT_DIR == << <<"output", 0>> >>

RANGES == [pallet |-> <<1, 5>>, rack |-> <<10, 30>>, forklift |-> <<5, 10>>]

LIGHT_RANGE == <<5, 10>>

Categories == {"pallet", "rack", "forklift"}

\* math.pi / 2 and math.pi, in milliradians
HALF_PI == 1571

PI == 3142

-----------------------------------------------------------------------------
(* Sequences and paths *)

Range(s) == {s[x] : x \in DOMAIN s}

SeqsUpTo(S, n) == UNION {[1..m -> S] : m \in 0..n}

Join(a, b) == a \o b

IsPrefix(a, p) == Len(a) <= Len(p) /\ SubSeq(p, 1, Len(a)) = a

Relpath(p, start) ==
    IF IsPrefix(start, p) THEN SubSeq(p, Len(start) + 1, Len(p)) ELSE p

File(name) == << <<name, 0>> >>

SceneDir(output_dir, scene_index) == Join(output_dir, << <<"scene", scene_index>> >>)

CameraDir(scene_dir, camera_index) == Join(scene_dir, << <<"cam", camera_index>> >>)

ImageNames == <<"rgba.png", "depth.tiff", "depth_normalized.png", "segmentation.png">>

\* one entry of the disk: who wrote it, how often, and what it holds
Entry(by, kind, data) == [by |-> {by}, n |-> 1, kind |-> kind, data |-> data]

Exists(disk, p) == p \in DOMAIN disk

\* open(p, "w") + write, or kb.write_*: creates p or overwrites it
WriteFile(disk, p, by, kind, data) ==
    IF Exists(disk, p)
    THEN [disk EXCEPT ![p] = [by |-> @.by \cup {by}, n |-> @.n + 1,
                              kind |-> kind, data |-> data]]
    ELSE (p :> Entry(by, kind, data)) @@ disk

\* os.makedirs(p, exist_ok=True): creates p and every missing ancestor
Makedirs(disk, p, by) ==
    LET missing == {SubSeq(p, 1, m) : m \in 1..Len(p)} \ DOMAIN disk
    IN  [q \in missing |-> Entry(by, "dir", <<>>)] @@ disk

-----------------------------------------------------------------------------
(* The random module *)

\* random.randint(lo, hi).  A run with rng.counts = "full" draws from the
\* whole range; the runs of a batch keep every draw at one end of its range.
Draw(lo, hi) ==
    CASE rng.counts = "full" -> lo..hi
      [] rng.counts = "lo"   -> {lo}
      [] rng.counts = "hi"   -> {hi}

\* random.uniform(-0.05, 0.05), three times: every object of one run gets the
\* jiggle angles rng.jiggle (milliradians about x, y, z)
DrawJiggle == {rng.jiggle}

\* random.choice(ASSET_CATEGORIES[category]): an asset path, or IndexError
\* (the empty set here) when the catalog is empty
Choice(category) == {[cat |-> category, file |-> f] : f \in 1..catalog[category]}

-----------------------------------------------------------------------------
(* Kubric's scene graph: scene.assets is the sequence of added assets *)

Asset(cls, name, quaternion) == [cls |-> cls, name |-> name, quaternion |-> quaternion]

\* name of a catalogued asset: os.path.basename(asset_path), with its prefix
Name(prefix, asset_path) == <<prefix, asset_path.cat, asset_path.file>>

Structural(name) == Asset("Cube", <<"", name, 0>>, <<0, 0, 0>>)

\* isinstance(o, kb.Light): DirectionalLight and PointLight derive from Light
IsLight(o) == o.cls \in {"DirectionalLight", "PointLight"}

\* isinstance(o, kb.PhysicalObject): Cube and FileBasedObject both derive
\* from kb.PhysicalObject
IsPhysicalObject(o) == o.cls \in {"Cube", "FileBasedObject"}

\* setup_building: scene += floor, then the four walls in list order
setup_building(assets) ==
    assets \o <<Structural("floor"), Structural("front_wall"),
                Structural("back_wall"), Structural("left_wall"),
                Structural("right_wall")>>

\* the branch on i in the loop of add_random_lighting
LightKind(i) == IF i = 0 THEN "DirectionalLight" ELSE "PointLight"

add_random_lighting_short(assets, num_lights) ==
    assets \o [x \in 1..(num_lights - 1) |->
                  Asset(LightKind(x - 1), <<"", "light", 0>>, <<0, 0, 0>>)]

\* add_random_lighting: for i in range(num_lights): scene += light
add_random_lighting(assets, num_lights) ==
    assets \o [x \in 1..num_lights |->
                  Asset(LightKind(x - 1), <<"", "light", 0>>, <<0, 0, 0>>)]

\* base_rotation * jiggle_x * jiggle_y * jiggle_z: a quarter turn about x,
\* then the three small turns; the orientation is kept as its three angles
Rotation(jiggle) == <<HALF_PI + jiggle[1], jiggle[2], jiggle[3]>>

\* the body of the loop of add_random_objects, and of place_pallet
FileBasedObject(prefix, asset_path, jiggle) ==
    Asset("FileBasedObject", Name(prefix, asset_path), Rotation(jiggle))

add_random_objects_short(assets, num_objects, asset_path, jiggle) ==
    assets \o [x \in 1..(num_objects - 1) |-> FileBasedObject("", asset_path, jiggle)]

\* add_random_objects: for _ in range(num_objects): scene += obj
add_random_objects(assets, num_objects, asset_path, jiggle) ==
    assets \o [x \in 1..num_objects |-> FileBasedObject("", asset_path, jiggle)]

\* place_pallet: the object named target_<basename>
place_pallet(asset_path, jiggle) == FileBasedObject("target_", asset_path, jiggle)

-----------------------------------------------------------------------------
(* Camera rig *)

Pose(angle, distance, look_at) ==
    [angle |-> angle, distance |-> distance, look_at |-> look_at]

setup_cameras_distance_outer(target, n_angles, dists) ==
    [k \in 1..(n_angles * Len(dists)) |->
        Pose((360000 \div n_angles) * ((k - 1) % n_angles),
             dists[((k - 1) \div n_angles) + 1], target)]

\* setup_cameras: for angle in ((360 / num_angles) * i ...): for distance in
\* distances: cameras.append(camera)
setup_cameras(target, n_angles, dists) ==
    [k \in 1..(n_angles * Len(dists)) |->
        Pose((360000 \div n_angles) * ((k - 1) \div Len(dists)),
             dists[((k - 1) % Len(dists)) + 1], target)]

-----------------------------------------------------------------------------
(* Rotations as Euler angles *)

\* Rotation.as_euler("xyz", degrees=...): the three angles of an orientation
\* held in milliradians, as numbers in thousandths
AsEuler(q, degrees) ==
    IF degrees THEN [x \in 1..3 |-> (q[x] * 180000) \div PI] ELSE q

\* Rotation.from_euler("xyz", v, degrees=...): back to milliradians
FromEuler(v, degrees) ==
    IF degrees THEN [x \in 1..3 |-> (v[x] * PI) \div 180000] ELSE v

\* one entry of scene_metadata["objects"]; as_euler("xyz") has no degrees
\* argument, so it yields radians
ObjectRecord(obj) ==
    [name |-> obj.name, rotation |-> AsEuler(obj.quaternion, FALSE)]

\* scene_metadata of generate_scene
SceneMetadata(scene_index, assets) ==
    [scene_index |-> scene_index,
     num_lights  |-> Len(SelectSeq(assets, IsLight)),
     objects     |-> LET phys == SelectSeq(assets, IsPhysicalObject)
                     IN  [x \in 1..Len(phys) |-> ObjectRecord(phys[x])]]

\* camera_metadata of save_render_data
CameraMetadata(output_dir, camera_dir, camera_index, camera) ==
    [camera_index |-> camera_index,
     pose         |-> camera,
     rgba_path    |-> Relpath(Join(camera_dir, File("rgba.png")), output_dir),
     depth_path   |-> Relpath(Join(camera_dir, File("depth.tiff")), output_dir)]

\* create_transformation_matrix of the converter reads the angles as degrees
create_transformation_matrix(euler_angles) == FromEuler(euler_angles, TRUE)

-----------------------------------------------------------------------------
(* Jobs: one call of generate_scene each *)

Jobs == 1..num_scenes

\* no exception, and an exception: its type, the state that raised it and the
\* file named in its message, if any
NoExc == [type |-> "none", at |-> "", path |-> <<>>]

Exc(type, at, path) == [type |-> type, at |-> at, path |-> path]

\* the errors the statements of generate_scene raise: IndexError from
\* random.choice, OSError from the file system, RuntimeError from the
\* renderer; all derive from Exception
ExceptionTypes == {"IndexError", "OSError", "RuntimeError"}

NoSample == [lights |-> 0, rack |-> 0, forklift |-> 0, pallet |-> 0]

NoAsset == Asset("none", <<"", "", 0>>, <<0, 0, 0>>)

\* the locals of generate_scene before it runs, and after it returned or raised
NoLocals == [assets |-> <<>>, sampled |-> NoSample, target_pallet |-> NoAsset,
             cameras |-> <<>>, camera_index |-> 0]

NewJob == [pc |-> "Unsubmitted", trace |-> <<>>, exc |-> NoExc, scene_index |-> -1,
           hung |-> FALSE,
           scene |-> NoLocals]

StatementsTargetFirst ==
    <<"Pending", "Init", "BuildLayout", "AddLighting", "ScatterRack",
      "ScatterForklift", "PlaceTarget", "ScatterPallet", "WriteSceneMetadata",
      "RigCameras", "RenderEachCamera", "Done">>

\* the statements of generate_scene in program order, after the job was queued
Statements ==
    <<"Pending", "Init", "BuildLayout", "AddLighting", "ScatterRack",
      "ScatterForklift", "ScatterPallet", "PlaceTarget", "WriteSceneMetadata",
      "RigCameras", "RenderEachCamera", "Done">>

Position(s) == CHOOSE x \in DOMAIN Statements : Statements[x] = s

Finished(k) == job[k].pc = "Done" \/ job[k].exc # NoExc

Running(k) == job[k].pc \notin {"Unsubmitted", "Pending"} /\ ~Finished(k)

\* job k is about to execute statement s
Ready(k, s) ==
    /\ k \in Jobs
    /\ job[k].exc = NoExc
    /\ ~job[k].hung
    /\ job[k].pc \in Range(Statements)
    /\ Position(job[k].pc) + 1 = Position(s)

\* statement s of job k completed, leaving the locals as in scene
Enter(k, s, scene) ==
    [job[k] EXCEPT !.pc = s, !.trace = Append(@, s), !.scene = scene]

\* statement s of job k raised e: the call is over and its locals are gone
Fail(k, s, e) ==
    [job[k] EXCEPT !.pc = s, !.trace = Append(@, s), !.exc = e, !.scene = NoLocals]

-----------------------------------------------------------------------------
(* Coordinator: generate_warehouse_scenes *)

\* os.makedirs(output_dir, exist_ok=True); the coordinator writes as 0
MakeOutputDir ==
    /\ cpc = "start"
    /\ fs' = Makedirs(fs, OUTPUT_DIR, 0)
    /\ cpc' = "submit"
    /\ UNCHANGED <<inputs, tasks, collected, log, job>>

SubmitArgFirstIndex(submitted) == 0

\* the scene_index passed by the comprehension over range(num_scenes)
SubmitArg(submitted) == submitted

\* executor.submit(generate_scene, output_dir, scene_index, ...)
Submit ==
    /\ cpc = "submit"
    /\ Len(tasks) < num_scenes
    /\ LET k == Len(tasks) + 1
       IN  /\ tasks' = Append(tasks, SubmitArg(Len(tasks)))
           /\ job' = [job EXCEPT ![k] = [@ EXCEPT !.pc = "Pending",
                                                  !.scene_index = SubmitArg(Len(tasks))]]
    /\ cpc' = IF Len(tasks) + 1 = num_scenes THEN "collect" ELSE "submit"
    /\ UNCHANGED <<inputs, collected, log, fs>>

\* logging.error(f"Error generating a scene: {e}")
LogRecord(e) == [level |-> "ERROR", text |-> "Error generating a scene", e |-> e]

ResultPropagates(e) ==
    IF e = NoExc THEN [cpc |-> "collect", log |-> log]
    ELSE [cpc |-> "raised", log |-> log]

\* try: future.result() / except Exception as e: logging.error(...).
\* Only what derives from Exception is caught; anything else would leave the
\* function by the exception
Result(e) ==
    CASE e = NoExc -> [cpc |-> "collect", log |-> log]
      [] e # NoExc /\ e.type \in ExceptionTypes ->
           [cpc |-> "collect", log |-> Append(log, LogRecord(e))]
      [] OTHER -> [cpc |-> "raised", log |-> log]

\* one round of: for future in tasks; future.result() blocks until the job ended
Collect ==
    /\ cpc = "collect"
    /\ collected < Len(tasks)
    /\ Finished(collected + 1)
    /\ LET r == Result(job[collected + 1].exc)
       IN  /\ cpc' = r.cpc
           /\ log' = r.log
    /\ collected' = collected + 1
    /\ UNCHANGED <<inputs, tasks, job, fs>>

\* leaving the with block: executor.shutdown(wait=True), then return
Return ==
    /\ cpc = "collect"
    /\ collected = Len(tasks)
    /\ \A k \in Jobs : Finished(k)
    /\ cpc' = "returned"
    /\ UNCHANGED <<inputs, tasks, collected, log, job, fs>>

-----------------------------------------------------------------------------
(* Worker processes: generate_scene *)

Pending == {k \in Jobs : job[k].pc = "Pending"}

FreeWorkerSerial == Cardinality({k \in Jobs : Running(k)}) < 1

\* the pool runs at most max_workers jobs at a time
FreeWorker == Cardinality({k \in Jobs : Running(k)}) < num_workers

\* a free worker takes the oldest queued job; generate_scene creates the
\* scene and its renderer, which may fail
StartJob ==
    /\ FreeWorker
    /\ Pending # {}
    /\ LET k == CHOOSE x \in Pending : \A y \in Pending : x <= y
       IN  \E ok \in BOOLEAN :
             job' = [job EXCEPT ![k] =
                       IF ok THEN Enter(k, "Init", NoLocals)
                       ELSE Fail(k, "Init", Exc("RuntimeError", "Init", <<>>))]
    /\ UNCHANGED <<inputs, cpc, tasks, collected, log, fs>>

\* dims = setup_building(scene)
BuildLayout(k) ==
    /\ Ready(k, "BuildLayout")
    /\ job' = [job EXCEPT ![k] = Enter(k, "BuildLayout",
                 [job[k].scene EXCEPT !.assets = setup_building(@)])]
    /\ UNCHANGED <<inputs, cpc, tasks, collected, log, fs>>

\* add_random_lighting(scene, num_lights=random.randint(5, 10), ...)
AddLighting(k) ==
    /\ Ready(k, "AddLighting")
    /\ \E n \in Draw(LIGHT_RANGE[1], LIGHT_RANGE[2]) :
         job' = [job EXCEPT ![k] = Enter(k, "AddLighting",
                    [job[k].scene EXCEPT !.assets = add_random_lighting(@, n),
                                         !.sampled.lights = n])]
    /\ UNCHANGED <<inputs, cpc, tasks, collected, log, fs>>

ScatterState(category) ==
    CASE category = "rack"     -> "ScatterRack"
      [] category = "forklift" -> "ScatterForklift"
      [] category = "pallet"   -> "ScatterPallet"

\* add_random_objects(scene, category, random.randint(*RANGES[category]), ...):
\* random.choice raises IndexError on an empty catalog
ScatterObjects(k, category) ==
    /\ Ready(k, ScatterState(category))
    /\ \E n \in Draw(RANGES[category][1], RANGES[category][2]) :
         IF n > 0 /\ Choice(category) = {}
         THEN job' = [job EXCEPT ![k] = Fail(k, ScatterState(category),
                         Exc("IndexError", ScatterState(category), <<>>))]
         ELSE \E asset_path \in Choice(category), jiggle \in DrawJiggle :
                job' = [job EXCEPT ![k] = Enter(k, ScatterState(category),
                          [job[k].scene EXCEPT
                             !.assets = add_random_objects(@, n, asset_path, jiggle),
                             !.sampled[category] = n])]
    /\ UNCHANGED <<inputs, cpc, tasks, collected, log, fs>>

\* target_pallet = place_pallet(scene, dims)
PlaceTarget(k) ==
    /\ Ready(k, "PlaceTarget")
    /\ IF Choice("pallet") = {}
       THEN job' = [job EXCEPT ![k] = Fail(k, "PlaceTarget",
                       Exc("IndexError", "PlaceTarget", <<>>))]
       ELSE \E asset_path \in Choice("pallet"), jiggle \in DrawJiggle :
              LET obj == place_pallet(asset_path, jiggle)
              IN  job' = [job EXCEPT ![k] = Enter(k, "PlaceTarget",
                            [job[k].scene EXCEPT !.assets = Append(@, obj),
                                                 !.target_pallet = obj])]
    /\ UNCHANGED <<inputs, cpc, tasks, collected, log, fs>>

\* the statements that call into Blender (apply_texture, bpy) or draw from a
\* texture list may raise there instead of completing
CollaboratorStates ==
    {"BuildLayout", "AddLighting", "ScatterRack", "ScatterForklift",
     "ScatterPallet", "PlaceTarget"}

CollaboratorRaises(k) ==
    /\ \E s \in CollaboratorStates :
         /\ Ready(k, s)
         /\ job' = [job EXCEPT ![k] = Fail(k, s, Exc("RuntimeError", s, <<>>))]
    /\ UNCHANGED <<inputs, cpc, tasks, collected, log, fs>>

\* os.makedirs(scene_dir); open(metadata.json, "w"); json.dump(scene_metadata).
\* makedirs may raise before anything exists, and the dump may raise after
\* open created the file, leaving it incomplete
WriteSceneMetadata(k) ==
    /\ Ready(k, "WriteSceneMetadata")
    /\ LET scene_dir == SceneDir(OUTPUT_DIR, job[k].scene_index)
           path      == Join(scene_dir, File("metadata.json"))
           doc       == SceneMetadata(job[k].scene_index, job[k].scene.assets)
       IN  \E outcome \in {"ok", "makedirs", "dump"} :
             CASE outcome = "ok" ->
                    /\ fs' = WriteFile(Makedirs(fs, scene_dir, k), path, k,
                                       "scene_meta", doc)
                    /\ job' = [job EXCEPT ![k] =
                                 Enter(k, "WriteSceneMetadata", job[k].scene)]
               [] outcome = "makedirs" ->
                    /\ fs' = fs
                    /\ job' = [job EXCEPT ![k] = Fail(k, "WriteSceneMetadata",
                                 Exc("OSError", "WriteSceneMetadata", scene_dir))]
               [] outcome = "dump" ->
                    /\ fs' = WriteFile(Makedirs(fs, scene_dir, k), path, k,
                                       "partial", <<>>)
                    /\ job' = [job EXCEPT ![k] = Fail(k, "WriteSceneMetadata",
                                 Exc("OSError", "WriteSceneMetadata", path))]
    /\ UNCHANGED <<inputs, cpc, tasks, collected, log>>

\* cameras = setup_cameras(target_pallet.position, num_angles, distances)
RigCameras(k) ==
    /\ Ready(k, "RigCameras")
    /\ job' = [job EXCEPT ![k] = Enter(k, "RigCameras",
                 [job[k].scene EXCEPT !.cameras =
                    setup_cameras(job[k].scene.target_pallet.name,
                                  num_angles, distances)])]
    /\ UNCHANGED <<inputs, cpc, tasks, collected, log, fs>>

\* for camera_index, camera in enumerate(cameras): the loop starts at index 0
EnterRender(k) ==
    /\ Ready(k, "RenderEachCamera")
    /\ job' = [job EXCEPT ![k] = Enter(k, "RenderEachCamera",
                 [job[k].scene EXCEPT !.camera_index = 0])]
    /\ UNCHANGED <<inputs, cpc, tasks, collected, log, fs>>

RECURSIVE WriteImages(_, _, _, _)
\* the first m of the four image files of one camera, in the order written
WriteImages(disk, camera_dir, by, m) ==
    IF m = 0 THEN disk
    ELSE WriteFile(WriteImages(disk, camera_dir, by, m - 1),
                   Join(camera_dir, File(ImageNames[m])), by, "image", <<>>)

\* the number of image files on disk when a write of save_render_data raises
WriteFailPoints == {0, 2, 4}

enumerate_skip(x) == x + 2

\* enumerate(cameras): the index that follows x
enumerate(x) == x + 1

\* one round of the loop: scene.camera = camera; save_render_data(...).
\* render_still may raise before anything is written; a write may raise after
\* the camera directory and some of the images exist; otherwise all four
\* images and then the camera's metadata.json are written
SaveRenderData(k) ==
    /\ k \in Jobs
    /\ job[k].pc = "RenderEachCamera"
    /\ job[k].exc = NoExc
    /\ ~job[k].hung
    /\ job[k].scene.camera_index < Len(job[k].scene.cameras)
    /\ LET camera_index == job[k].scene.camera_index
           camera       == job[k].scene.cameras[camera_index + 1]
           scene_dir    == SceneDir(OUTPUT_DIR, job[k].scene_index)
           camera_dir   == CameraDir(scene_dir, camera_index)
           path         == Join(camera_dir, File("metadata.json"))
           dirs         == Makedirs(fs, camera_dir, k)
       IN  \/ /\ fs' = WriteFile(WriteImages(dirs, camera_dir, k, 4), path, k,
                          "camera_meta",
                          CameraMetadata(OUTPUT_DIR, camera_dir, camera_index, camera))
              /\ job' = [job EXCEPT ![k].scene.camera_index = enumerate(camera_index)]
           \/ /\ fs' = fs
              /\ job' = [job EXCEPT ![k] = [Fail(k, "RenderEachCamera",
                           Exc("RuntimeError", "RenderEachCamera", <<>>))
                             EXCEPT !.trace = job[k].trace]]
           \/ \E m \in WriteFailPoints :
                /\ fs' = WriteImages(dirs, camera_dir, k, m)
                /\ job' = [job EXCEPT ![k] = [Fail(k, "RenderEachCamera",
                             Exc("OSError", "RenderEachCamera", camera_dir))
                               EXCEPT !.trace = job[k].trace]]
    /\ UNCHANGED <<inputs, cpc, tasks, collected, log>>

\* the loop is exhausted and generate_scene returns
Finish(k) ==
    /\ Ready(k, "Done")
    /\ job[k].scene.camera_index = Len(job[k].scene.cameras)
    /\ job' = [job EXCEPT ![k] = Enter(k, "Done", NoLocals)]
    /\ UNCHANGED <<inputs, cpc, tasks, collected, log, fs>>

-----------------------------------------------------------------------------
(* Specifications *)

InitRun ==
    /\ cpc = "start"
    /\ tasks = <<>>
    /\ collected = 0
    /\ log = <<>>
    /\ job = [k \in 1..num_scenes |-> NewJob]
    /\ fs = <<>>

\* a batch: several scenes on several workers, every draw at the low end
Init ==
    /\ catalog \in {[c \in Categories |-> 1],
                    [c \in Categories |-> IF c = "rack" THEN 0 ELSE 1]}
    /\ rng \in [counts : {"lo"}, jiggle : {<<0, 0, 0>>}]
    /\ num_scenes \in 1..MaxScenes
    /\ num_workers \in 1..MaxWorkers
    /\ num_angles = 1
    /\ distances = <<800>>
    /\ InitRun

\* one scene, every count drawn from its whole range
InitScene ==
    /\ catalog \in [Categories -> CatalogSizes]
    /\ rng \in [counts : {"full"}, jiggle : {<<50, -50, 20>>}]
    /\ num_scenes = 1
    /\ num_workers = 1
    /\ num_angles = 1
    /\ distances = <<800>>
    /\ InitRun

\* one scene, every camera rig within the bounds
InitRig ==
    /\ catalog = [c \in Categories |-> 1]
    /\ rng \in [counts : {"lo", "hi"}, jiggle : JiggleSamples]
    /\ num_scenes = 1
    /\ num_workers = 1
    /\ num_angles \in 1..MaxAngles
    /\ distances \in SeqsUpTo(DistanceSamples, MaxDistances)
    /\ InitRun

Next ==
    \/ MakeOutputDir
    \/ Submit
    \/ Collect
    \/ Return
    \/ StartJob
    \/ \E k \in Jobs : BuildLayout(k)
    \/ \E k \in Jobs : AddLighting(k)
    \/ \E k \in Jobs : ScatterObjects(k, "rack")
    \/ \E k \in Jobs : ScatterObjects(k, "forklift")
    \/ \E k \in Jobs : ScatterObjects(k, "pallet")
    \/ \E k \in Jobs : PlaceTarget(k)
    \/ \E k \in Jobs : CollaboratorRaises(k)
    \/ \E k \in Jobs : WriteSceneMetadata(k)
    \/ \E k \in Jobs : RigCameras(k)
    \/ \E k \in Jobs : EnterRender(k)
    \/ \E k \in Jobs : SaveRenderData(k)
    \/ \E k \in Jobs : Finish(k)

Spec == Init /\ [][Next]_vars

SpecScene == InitScene /\ [][Next]_vars

SpecRig == InitRig /\ [][Next]_vars

-----------------------------------------------------------------------------
(* A job that never returns *)

\* renderer.render_still() of save_render_data blocks for ever: the job keeps
\* its worker and takes no further step.  Nothing in generate_warehouse_scenes
\* passes a timeout to future.result() or cancels a future, so no action ends
\* it.  At most one job hangs in a run
Hang(k) ==
    /\ k \in Jobs
    /\ Running(k)
    /\ job[k].pc = "RenderEachCamera"
    /\ job[k].scene.camera_index < Len(job[k].scene.cameras)
    /\ \A x \in Jobs : ~job[x].hung
    /\ job' = [job EXCEPT ![k].hung = TRUE]
    /\ UNCHANGED <<inputs, cpc, tasks, collected, log, fs>>

\* the steps of generate_scene for job k
JobStep(k) ==
    \/ BuildLayout(k)
    \/ AddLighting(k)
    \/ ScatterObjects(k, "rack")
    \/ ScatterObjects(k, "forklift")
    \/ ScatterObjects(k, "pallet")
    \/ PlaceTarget(k)
    \/ CollaboratorRaises(k)
    \/ WriteSceneMetadata(k)
    \/ RigCameras(k)
    \/ EnterRender(k)
    \/ SaveRenderData(k)
    \/ Finish(k)

\* a batch on every pool size within the bounds, catalogs complete
InitHang ==
    /\ catalog = [c \in Categories |-> 1]
    /\ rng \in [counts : {"lo"}, jiggle : {<<0, 0, 0>>}]
    /\ num_scenes \in 1..MaxScenes
    /\ num_workers \in 1..MaxWorkers
    /\ num_angles = 1
    /\ distances = <<800>>
    /\ InitRun

NextHang ==
    \/ Next
    \/ \E k \in Jobs : Hang(k)

\* a step of the coordinator up to the last submit, of the pool handing a
\* queued job to a free worker, or of a worker process that is not blocked
Progress ==
    \/ MakeOutputDir
    \/ Submit
    \/ StartJob
    \/ \E k \in Jobs : JobStep(k)

\* the processes keep running: while any of them can take a step, one does
Fairness == WF_vars(Progress)

SpecHang == InitHang /\ [][NextHang]_vars /\ Fairness

-----------------------------------------------------------------------------
(* What is on disk *)

SceneMetaPath(scene_index) ==
    Join(SceneDir(OUTPUT_DIR, scene_index), File("metadata.json"))

CamPath(scene_index, c, name) ==
    Join(CameraDir(SceneDir(OUTPUT_DIR, scene_index), c), File(name))

HasKind(p, kind) == IF Exists(fs, p) THEN fs[p].kind = kind ELSE FALSE

\* the scene's metadata document is on disk, complete
HasSceneMeta(scene_index) == HasKind(SceneMetaPath(scene_index), "scene_meta")

SceneDoc(scene_index) == fs[SceneMetaPath(scene_index)].data

\* camera c of the scene has its metadata document on disk
HasCamMeta(scene_index, c) ==
    HasKind(CamPath(scene_index, c, "metadata.json"), "camera_meta")

CamDoc(scene_index, c) == fs[CamPath(scene_index, c, "metadata.json")].data

\* camera indices of the scene for which anything is on disk
CamDirs(scene_index) ==
    {p[3][2] : p \in {q \in DOMAIN fs :
        Len(q) = 3 /\ IsPrefix(SceneDir(OUTPUT_DIR, scene_index), q)
                   /\ q[3][1] = "cam"}}

CamsWithMeta(scene_index) == {c \in CamDirs(scene_index) : HasCamMeta(scene_index, c)}

RigSize == num_angles * Len(distances)

\* every output of camera c of the scene is on disk
CameraComplete(scene_index, c) ==
    /\ \A x \in DOMAIN ImageNames : HasKind(CamPath(scene_index, c, ImageNames[x]), "image")
    /\ HasCamMeta(scene_index, c)

\* the job ran to Done and left its scene metadata and all camera outputs
Complete(k) ==
    /\ job[k].pc = "Done"
    /\ HasSceneMeta(job[k].scene_index)
    /\ \A c \in 0..(RigSize - 1) : CameraComplete(job[k].scene_index, c)

\* the job wrote its scene metadata and its locals are still alive
Described(k) ==
    /\ Running(k)
    /\ job[k].pc \in {"WriteSceneMetadata", "RigCameras", "RenderEachCamera"}
    /\ HasSceneMeta(job[k].scene_index)

-----------------------------------------------------------------------------
(* Claims *)

\* C1: a scene job that raises never aborts the batch: the coordinator never
\* ends by an exception, and once it has returned every job that did not
\* raise is Done with its scene metadata and all camera outputs written
C1_FailureIsolation ==
    /\ cpc # "raised"
    /\ cpc = "returned" =>
         \A k \in Jobs : job[k].exc = NoExc => Complete(k)

\* C1 witness: the batch returned, an earlier job raised and a later one is complete
C1_Witness ==
    /\ cpc = "returned"
    /\ \E k1, k2 \in Jobs :
         /\ k1 < k2
         /\ job[k1].exc # NoExc
         /\ Complete(k2)

ClaimedOrder ==
    <<"Init", "BuildLayout", "AddLighting", "ScatterRack", "ScatterForklift",
      "ScatterPallet", "PlaceTarget", "WriteSceneMetadata", "RigCameras",
      "RenderEachCamera", "Done">>

C2_InOrder ==
    \A k \in Jobs :
      /\ IsPrefix(job[k].trace, ClaimedOrder)
      /\ job[k].trace # <<>> => job[k].pc = job[k].trace[Len(job[k].trace)]
      /\ job[k].exc # NoExc => job[k].exc.at = job[k].pc

C2_StopsWhereRaised ==
    \A k \in Jobs : job[k].exc # NoExc => job'[k] = job[k]

\* C2: the states a scene has entered are always an initial part of Init,
\* BuildLayout, AddLighting, ScatterRack, ScatterForklift, ScatterPallet,
\* PlaceTarget, WriteSceneMetadata, RigCameras, RenderEachCamera, Done, the
\* scene is in the last of them, and a scene that raised is in the state that
\* raised and never moves again
C2_StrictSequence == [](C2_InOrder) /\ [][C2_StopsWhereRaised]_vars

\* C2 witness: one scene went through all eleven states and another raised
\* in ScatterPallet, in the same batch
C2_Witness ==
    \E k1, k2 \in Jobs :
      /\ job[k1].trace = ClaimedOrder
      /\ job[k2].exc # NoExc
      /\ job[k2].pc = "ScatterPallet"
      /\ Len(job[k2].trace) = 6

\* C3: the rig has num_angles * len(distances) poses, pose i*len(distances)+j
\* is built from angle i*(360/num_angles) and distances[j], and the camera
\* documents written carry exactly the indices 0 .. rig size - 1, each with
\* the pose of its index
C3_RigOrder ==
    \A k \in Jobs :
      LET cams == job[k].scene.cameras
          idx  == job[k].scene_index
          L    == Len(distances)
      IN  /\ (Running(k) /\ job[k].pc \in {"RigCameras", "RenderEachCamera"}) =>
               /\ Len(cams) = num_angles * L
               /\ \A i \in 0..(num_angles - 1), j \in 1..L :
                    /\ cams[i * L + j].angle = i * (360000 \div num_angles)
                    /\ cams[i * L + j].distance = distances[j]
          /\ \A c \in CamsWithMeta(idx) :
               /\ c \in 0..(num_angles * L - 1)
               /\ CamDoc(idx, c).camera_index = c
               /\ CamDoc(idx, c).pose.angle = (c \div L) * (360000 \div num_angles)
               /\ CamDoc(idx, c).pose.distance = distances[(c % L) + 1]
          /\ job[k].pc = "Done" => CamsWithMeta(idx) = 0..(num_angles * L - 1)

\* C3 witness: a finished scene with two angles and two different distances
C3_Witness ==
    /\ num_angles = 2
    /\ Len(distances) = 2
    /\ distances[1] # distances[2]
    /\ \E k \in Jobs : job[k].pc = "Done" /\ CamsWithMeta(job[k].scene_index) = 0..3

\* C4: every entry of "objects" in a written scene document is a scattered
\* rack, forklift or pallet or the target pallet; the floor and the walls of
\* setup_building are not among them
C4_NoStructuralObjects ==
    \A k \in Jobs :
      HasSceneMeta(job[k].scene_index) =>
        \A x \in DOMAIN SceneDoc(job[k].scene_index).objects :
          SceneDoc(job[k].scene_index).objects[x].name[2] \in Categories

\* C5: num_lights of a written scene document is the number of lights drawn
\* and added, lies in 5..10, and the lights of the scene are one directional
\* light, added first, and otherwise point lights
C5_NumLights ==
    \A k \in Jobs :
      /\ HasSceneMeta(job[k].scene_index) =>
           SceneDoc(job[k].scene_index).num_lights \in 5..10
      /\ Described(k) =>
           LET lights == SelectSeq(job[k].scene.assets, IsLight)
               n      == SceneDoc(job[k].scene_index).num_lights
           IN  /\ n = job[k].scene.sampled.lights
               /\ n = Len(lights)
               /\ lights[1].cls = "DirectionalLight"
               /\ \A x \in 2..n : lights[x].cls = "PointLight"

\* C5 witness: a written document that records ten lights
C5_Witness ==
    \E k \in Jobs :
      /\ Described(k)
      /\ SceneDoc(job[k].scene_index).num_lights = 10
      /\ job[k].scene.sampled.lights = 10

\* C6: apart from the output root, every path on disk was written by exactly
\* one scene job and lies under scene_<i> for the scene index i of that job,
\* and the submitted scene indices are pairwise different and, once all are
\* submitted, are exactly 0 .. num_scenes - 1
C6_DisjointWrites ==
    /\ \A p \in DOMAIN fs :
         IF p = OUTPUT_DIR THEN fs[p].by = {0}
         ELSE /\ Cardinality(fs[p].by) = 1
              /\ \A k \in fs[p].by :
                   /\ k \in Jobs
                   /\ IsPrefix(Join(OUTPUT_DIR, << <<"scene", tasks[k]>> >>), p)
    /\ \A a, b \in DOMAIN tasks : a # b => tasks[a] # tasks[b]
    /\ cpc \in {"collect", "returned"} => Range(tasks) = 0..(num_scenes - 1)

\* C6 witness: two jobs run at the same time and both have files on disk
C6_Witness ==
    \E k1, k2 \in Jobs :
      /\ k1 # k2
      /\ Running(k1) /\ Running(k2)
      /\ HasSceneMeta(job[k1].scene_index)
      /\ HasCamMeta(job[k2].scene_index, 0)

\* the log record names the scene: the only place a scene index can come
\* from is the message of the exception, when it names a path under scene_<i>
CarriesIndex(r, scene_index) ==
    \E x \in DOMAIN r.e.path : r.e.path[x] = <<"scene", scene_index>>

\* C7: for every failed job the coordinator has passed there is a log record
\* for that failure which carries the index of the failed scene, and the job
\* stays where it raised
C7_LoggedWithIndex ==
    \A k \in 1..collected :
      job[k].exc # NoExc =>
        /\ \E x \in DOMAIN log :
             /\ log[x].e = job[k].exc
             /\ CarriesIndex(log[x], tasks[k])
        /\ job[k].pc = job[k].exc.at

\* C8: a written scene document holds, for each category, exactly as many
\* records as were drawn for that category, and exactly one target record
C8_RecordsPerCategory ==
    \A k \in Jobs :
      Described(k) =>
        LET objects == SceneDoc(job[k].scene_index).objects
            Of(c)   == {x \in DOMAIN objects :
                          objects[x].name[1] = "" /\ objects[x].name[2] = c}
        IN  /\ \A c \in Categories :
                 /\ catalog[c] > 0
                 /\ Cardinality(Of(c)) = job[k].scene.sampled[c]
                 /\ job[k].scene.sampled[c] \in RANGES[c][1]..RANGES[c][2]
            /\ Cardinality({x \in DOMAIN objects : objects[x].name[1] = "target_"}) = 1

\* C8 witness: a written document of a scene that drew 30 racks, 5 forklifts
\* and 3 pallets
C8_Witness ==
    \E k \in Jobs :
      /\ Described(k)
      /\ job[k].scene.sampled.rack = 30
      /\ job[k].scene.sampled.forklift = 5
      /\ job[k].scene.sampled.pallet = 3

Abs(x) == IF x < 0 THEN -x ELSE x

\* C9: reading the rotation field of every record of a written scene document
\* as degrees, as create_transformation_matrix does, gives the orientation
\* the object was placed with (to the rounding of one thousandth)
C9_RotationUnitAgrees ==
    \A k \in Jobs :
      Described(k) =>
        LET objects == SceneDoc(job[k].scene_index).objects
            placed  == SelectSeq(job[k].scene.assets, IsPhysicalObject)
        IN  \A x \in DOMAIN objects : \A a \in 1..3 :
              Abs(create_transformation_matrix(objects[x].rotation)[a]
                  - placed[x].quaternion[a]) <= 1

\* C10: the scene metadata.json is written once; the cameras of a scene that
\* have their metadata.json are 0 .. k-1 for some k, every camera that has
\* anything on disk is at most the next one after them, and nothing of any
\* camera is on disk unless the scene metadata.json is
C10_CameraPrefix ==
    \A k \in Jobs :
      LET idx  == job[k].scene_index
          done == CamsWithMeta(idx)
      IN  /\ done = 0..(Cardinality(done) - 1)
          /\ CamDirs(idx) \subseteq 0..Cardinality(done)
          /\ CamDirs(idx) # {} => HasSceneMeta(idx)
          /\ Exists(fs, SceneMetaPath(idx)) => fs[SceneMetaPath(idx)].n = 1
          /\ Running(k) /\ job[k].pc = "RenderEachCamera" =>
               done = 0..(job[k].scene.camera_index - 1)

\* C10 witness: a scene that aborted while writing its second camera, leaving
\* camera 0 complete and camera 1 without metadata.json
C10_Witness ==
    \E k \in Jobs :
      /\ job[k].exc # NoExc
      /\ job[k].pc = "RenderEachCamera"
      /\ CamsWithMeta(job[k].scene_index) = {0}
      /\ CamDirs(job[k].scene_index) = {0, 1}

\* C11 witness: with two workers one job hangs and the other job of the
\* batch has run to Done, while the coordinator still waits
C11_Witness ==
    /\ num_workers >= 2
    /\ cpc = "collect"
    /\ \E k1, k2 \in Jobs :
         /\ job[k1].hung
         /\ k1 < k2
         /\ job[k2].pc = "Done"

\* some job of the batch is submitted and waits for a worker
Queued == \E k \in Jobs : job[k].pc = "Pending"

\* every job of the batch has ended, by Done or by an exception, or is the
\* job that hangs
Settled == \A k \in Jobs : job[k].hung \/ Finished(k)

C11_NeverCancelled ==
    \A k \in Jobs : job[k].hung => job'[k] = job[k]

\* C11 as stated: on every pool size, once jobs are queued every job of the
\* batch is eventually finished (Done or raised) or is the job that hangs,
\* and the hung job is never ended
C11_HungBlocksOnlyItself ==
    /\ Queued ~> Settled
    /\ [][C11_NeverCancelled]_vars

\* C11 amended: on a pool of at least two workers, once jobs are queued every
\* job of the batch is eventually finished (Done or raised) or is the job
\* that hangs, and on any pool size the hung job is never ended
C11_HungBlocksOnlyItselfTwoWorkers ==
    /\ (Queued /\ num_workers >= 2) ~> Settled
    /\ [][C11_NeverCancelled]_vars

-----------------------------------------------------------------------------
(* The archival converter, reading the disk the generator left *)

\* data_root of the converter script
DATA_ROOT == << <<"output", 0>> >>

\* os.listdir(dir): the names directly under dir
listdir(disk, dir) ==
    {q[Len(dir) + 1] : q \in {p \in DOMAIN disk :
        Len(p) = Len(dir) + 1 /\ IsPrefix(dir, p)}}

\* camera_dirs of process_scene: the names under the scene that start with cam_
camera_dirs(disk, scene_path) ==
    {d \in listdir(disk, scene_path) : d[1] = "cam"}

\* os.path.join(scene_path, cam_dir, recorded) for a recorded relative path
ArchivePath(scene_path, cam_dir, recorded) ==
    Join(Join(scene_path, <<cam_dir>>), recorded)

\* the datasets of one camera group: the transform always, an image only if
\* the joined path exists
CameraGroup(disk, scene_path, cam_dir) ==
    LET camera_path     == Join(Join(scene_path, <<cam_dir>>), File("metadata.json"))
        camera_metadata == disk[camera_path].data
        rgba_path       == ArchivePath(scene_path, cam_dir, camera_metadata.rgba_path)
        depth_path      == ArchivePath(scene_path, cam_dir, camera_metadata.depth_path)
    IN  [key      |-> camera_metadata.camera_index,
         datasets |-> {"transformation_matrix"}
                      \cup (IF Exists(disk, rgba_path) THEN {"rgba_image"} ELSE {})
                      \cup (IF Exists(disk, depth_path) THEN {"depth_image"} ELSE {})]

\* process_scene: raises when the scene's metadata.json is missing or cut
\* short; otherwise one group per camera directory that has a metadata.json
process_scene(disk, scene_path) ==
    LET scene_meta == Join(scene_path, File("metadata.json"))
        loads      == IF Exists(disk, scene_meta)
                      THEN disk[scene_meta].kind = "scene_meta" ELSE FALSE
        described  == {d \in camera_dirs(disk, scene_path) :
                        Exists(disk, Join(Join(scene_path, <<d>>), File("metadata.json")))}
    IN  [raised  |-> ~loads,
         cameras |-> IF loads
                     THEN [d \in described |-> CameraGroup(disk, scene_path, d)]
                     ELSE <<>>]

\* scene_path of convert_to_hdf5 for one scene directory
ScenePath(scene_index) == Join(DATA_ROOT, << <<"scene", scene_index>> >>)

\* C12: for every camera whose four images and metadata.json are on disk, the
\* paths the converter joins from the recorded rgba_path and depth_path are
\* the files save_render_data wrote, the camera's group holds rgba_image and
\* depth_image, and a described camera lacks an image dataset only if the
\* image file is missing
C12_CompletedCameraArchived ==
    \A k \in Jobs :
      LET scene_index == job[k].scene_index
          scene_path  == ScenePath(scene_index)
          archive     == process_scene(fs, scene_path)
      IN  \A c \in CamsWithMeta(scene_index) :
            LET cam_dir == <<"cam", c>>
                doc     == CamDoc(scene_index, c)
                group   == archive.cameras[cam_dir]
            IN  /\ ~archive.raised
                /\ CameraComplete(scene_index, c) =>
                     /\ ArchivePath(scene_path, cam_dir, doc.rgba_path)
                          = CamPath(scene_index, c, "rgba.png")
                     /\ ArchivePath(scene_path, cam_dir, doc.depth_path)
                          = CamPath(scene_index, c, "depth.tiff")
                     /\ {"rgba_image", "depth_image"} \subseteq group.datasets
                /\ "rgba_image" \notin group.datasets
                     => ~Exists(fs, CamPath(scene_index, c, "rgba.png"))
                /\ "depth_image" \notin group.datasets
                     => ~Exists(fs, CamPath(scene_index, c, "depth.tiff"))

====
